---- MODULE Spec2Model ----
(***************************************************************************)
(* Model of nyse-logos (src/src/main.rs): one upstream table fetch, the    *)
(* TSV parser, and the semaphore-bounded fan-out of logo fetch tasks.      *)
(* Strings are sequences of one-character strings, so that splitting,      *)
(* trimming and case conversion are computed rather than assumed.          *)
(***************************************************************************)
EXTENDS Integers, Sequences, FiniteSets

(* ------------------------------ bounds -------------------------------- *)

\* Largest number of data lines of a table the pipeline is run on.
MaxRows == 2

\* Largest value of the --jobs option.
MaxJobs == 1

\* Largest length (in characters) of a text handed to the parser alone.
MaxLen == 7

(* ---------------------------- characters ------------------------------ *)

TAB == "\t"

LF == "\n"

CR == "\r"

LowerLetters == <<"a", "b", "l", "m", "n", "o", "s", "y">>

UpperLetters == <<"A", "B", "L", "M", "N", "O", "S", "Y">>

Digits == {"1"}

Range(f) == {f[i] : i \in DOMAIN f}

\* char::is_whitespace, on the characters of the model
is_whitespace(c) == c \in {" ", TAB, LF, CR}

\* char::is_alphanumeric
is_alphanumeric(c) == c \in Range(LowerLetters) \cup Range(UpperLetters) \cup Digits

CharUpper(c) ==
    IF c \in Range(LowerLetters)
    THEN UpperLetters[CHOOSE i \in DOMAIN LowerLetters : LowerLetters[i] = c]
    ELSE c

CharLower(c) ==
    IF c \in Range(UpperLetters)
    THEN LowerLetters[CHOOSE i \in DOMAIN UpperLetters : UpperLetters[i] = c]
    ELSE c

\* str::to_uppercase / str::to_lowercase
to_uppercase(s) == [i \in DOMAIN s |-> CharUpper(s[i])]

to_lowercase(s) == [i \in DOMAIN s |-> CharLower(s[i])]

\* str::trim: drop the leading and the trailing whitespace
RECURSIVE trim_start(_)
trim_start(s) ==
    IF s # <<>> /\ is_whitespace(Head(s)) THEN trim_start(Tail(s)) ELSE s

RECURSIVE trim_end(_)
trim_end(s) ==
    IF s # <<>> /\ is_whitespace(s[Len(s)])
    THEN trim_end(SubSeq(s, 1, Len(s) - 1))
    ELSE s

trim(s) == trim_end(trim_start(s))

\* str::split(sep): the pieces between separators; always at least one piece
RECURSIVE SplitAcc(_, _, _)
SplitAcc(s, sep, cur) ==
    IF s = <<>> THEN <<cur>>
    ELSE IF Head(s) = sep THEN <<cur>> \o SplitAcc(Tail(s), sep, <<>>)
    ELSE SplitAcc(Tail(s), sep, Append(cur, Head(s)))

split(s, sep) == SplitAcc(s, sep, <<>>)

StripCR(l) ==
    IF l # <<>> /\ l[Len(l)] = CR THEN SubSeq(l, 1, Len(l) - 1) ELSE l

\* str::lines: split on LF, no line for the empty remainder after the last
\* LF, a CR before the LF removed
lines(s) ==
    LET pieces == split(s, LF)
        kept == IF pieces[Len(pieces)] = <<>>
                THEN SubSeq(pieces, 1, Len(pieces) - 1)
                ELSE pieces
    IN [i \in DOMAIN kept |-> StripCR(kept[i])]

(* ------------------------------- Tsv ---------------------------------- *)

\* mutant of RowOf: empty fields are dropped before the zip
RowOfSkipEmpty(headers, fields) ==
    [k \in {headers[i] : i \in {j \in DOMAIN fields : fields[j] # <<>>}} |->
        fields[CHOOSE i \in DOMAIN fields :
                  /\ headers[i] = k
                  /\ \A j \in DOMAIN fields : headers[j] = k => j <= i]]

\* One data line's fields zipped against the headers and collected into a
\* HashMap: a later field of the same header name replaces an earlier one.
RowOf(headers, fields) ==
    [k \in {headers[i] : i \in DOMAIN fields} |->
        fields[CHOOSE i \in DOMAIN fields :
                  /\ headers[i] = k
                  /\ \A j \in DOMAIN fields : headers[j] = k => j <= i]]

TrimAll(fields) == [i \in DOMAIN fields |-> trim(fields[i])]

\* mutant of from_str: the fields beyond the last header are dropped
from_str_truncating(s) ==
    LET ls == lines(s) IN
    IF ls = <<>> THEN [kind |-> "err", msg |-> "missing headers"]
    ELSE
        LET headers == TrimAll(split(ls[1], TAB))
            data == Tail(ls)
            fieldsOf(i) ==
                LET fs0 == TrimAll(split(data[i], TAB)) IN
                IF Len(fs0) > Len(headers) THEN SubSeq(fs0, 1, Len(headers))
                ELSE fs0
        IN [kind |-> "ok",
            headers |-> headers,
            rows |-> [i \in DOMAIN data |-> RowOf(headers, fieldsOf(i))]]

\* Tsv::from_str. kind "err" is the returned Err, kind "panic" the
\* out-of-range index headers[i] of a line with more fields than headers.
from_str(s) ==
    LET ls == lines(s) IN
    IF ls = <<>> THEN [kind |-> "err", msg |-> "missing headers"]
    ELSE
        LET headers == TrimAll(split(ls[1], TAB))
            data == Tail(ls)
            fieldsOf(i) == TrimAll(split(data[i], TAB))
        IN IF \E i \in DOMAIN data : Len(fieldsOf(i)) > Len(headers)
           THEN [kind |-> "panic", msg |-> "index out of bounds"]
           ELSE [kind |-> "ok",
                 headers |-> headers,
                 rows |-> [i \in DOMAIN data |-> RowOf(headers, fieldsOf(i))]]

\* the literal "symbol" that pmain looks up
SymbolName == <<"s", "y", "m", "b", "o", "l">>

\* mutant of find_header_index_case_insensitive: None taken for the
\* first column
find_header_or_first(headers, name) ==
    LET n == to_lowercase(name)
        hits == {i \in DOMAIN headers : to_lowercase(headers[i]) = n}
    IN IF hits = {} THEN 1
       ELSE CHOOSE i \in hits : \A j \in hits : i <= j

\* Tsv::find_header_index_case_insensitive: the first matching position
\* (1-based here), 0 for None
find_header_index_case_insensitive(headers, name) ==
    LET n == to_lowercase(name)
        hits == {i \in DOMAIN headers : to_lowercase(headers[i]) = n}
    IN IF hits = {} THEN 0
       ELSE CHOOSE i \in hits : \A j \in hits : i <= j

(* ----------------------------- the run -------------------------------- *)

VARIABLES
    prev_run,      \* <<>> in the first run, then what the run before left behind
    opts,          \* Opts: [force, jobs]
    pc,            \* where main/pmain is
    exit_code,     \* "none" while the process runs, then "0", "1" or "101" (panic)
    error,         \* the Err pmain returned, <<>> when none
    nyse_content,  \* body of the table response
    tsv,           \* the parsed Tsv
    symbol,        \* index of the symbol column
    row_idx,       \* the row the for loop is at
    join_set,      \* ids of the tasks spawned and not yet joined
    tasks,         \* task id (its row's index) -> the task's state
    semaphore,     \* permits available
    fs,            \* the output directory: path -> content
    log            \* the log events emitted so far

vars == <<prev_run, opts, pc, exit_code, error, nyse_content, tsv, symbol, row_idx,
          join_set, tasks, semaphore, fs, log>>

Put(f, k, v) == [x \in DOMAIN f \cup {k} |-> IF x = k THEN v ELSE f[x]]

\* PathBuf::from(&opts.output).join("symbols.toml")
toml_path == <<"symbols.toml">>

\* PathBuf::from(&opts.output).join(format!("{symbol}.svg"))
logo_path(sym) == sym \o <<".svg">>

\* format!("https://logos.stockanalysis.com/{}.svg", symbol.to_lowercase())
logo_url(sym) ==
    <<"https://logos.stockanalysis.com/">> \o to_lowercase(sym) \o <<".svg">>

(* Inputs of the run: the table texts the upstream server may return. *)

HeaderLines ==
    { << <<"S", "y", "m", "b", "o", "l">> >>,
      << <<"n">>, <<" ", "S", "Y", "M", "B", "O", "L">> >>,
      << <<"n">> >> }

Cells == { <<"a">>, <<" ", "b">>, <<"a", ".">>, <<>> }

DataLines == { <<c>> : c \in Cells } \cup { <<<<"n">>, c>> : c \in Cells }

RECURSIVE Join(_, _)
Join(pieces, sep) ==
    IF pieces = <<>> THEN <<>>
    ELSE IF Len(pieces) = 1 THEN pieces[1]
    ELSE pieces[1] \o <<sep>> \o Join(Tail(pieces), sep)

\* the text of a table: every line terminated by LF
RECURSIVE Unlines(_)
Unlines(ls) ==
    IF ls = <<>> THEN <<>>
    ELSE Join(ls[1], TAB) \o <<LF>> \o Unlines(Tail(ls))

SeqsUpTo(S, n) == UNION {[1..k -> S] : k \in 0..n}

Texts ==
    {<<>>} \cup
    {Unlines(<<h>> \o d) : h \in HeaderLines, d \in SeqsUpTo(DataLines, MaxRows)}

\* the logo files that are there before the run
OldFiles == {logo_path(<<"A">>)}

Bodies == {"svg"}

NoTsv == [kind |-> "none"]

\* what the table request answers: any table in a first run, the table of
\* the run before in a run that follows it
TextsNow == IF prev_run = <<>> THEN Texts ELSE {prev_run[1].nyse_content}

\* mutant of Init: a job count of zero is raised to one permit
InitAtLeastOnePermit ==
    /\ prev_run = <<>>
    /\ opts \in [force : BOOLEAN, jobs : 0..MaxJobs]
    /\ pc = "fetch"
    /\ exit_code = "none"
    /\ error = <<>>
    /\ nyse_content = <<>>
    /\ tsv = NoTsv
    /\ symbol = 0
    /\ row_idx = 0
    /\ join_set = {}
    /\ tasks = <<>>
    /\ semaphore = IF opts.jobs = 0 THEN 1 ELSE opts.jobs
    /\ fs = [p \in OldFiles |-> "old"]
    /\ log = {}

\* lines 27-39, 69-70: the options as given, Semaphore::new(opts.jobs)
Init ==
    /\ prev_run = <<>>
    /\ opts \in [force : BOOLEAN, jobs : 0..MaxJobs]
    /\ pc = "fetch"
    /\ exit_code = "none"
    /\ error = <<>>
    /\ nyse_content = <<>>
    /\ tsv = NoTsv
    /\ symbol = 0
    /\ row_idx = 0
    /\ join_set = {}
    /\ tasks = <<>>
    /\ semaphore = opts.jobs
    /\ fs = [p \in OldFiles |-> "old"]
    /\ log = {}

\* `?` in pmain: the Err is returned to main (dropping join_set, which
\* aborts the tasks)
Fail(msg) ==
    /\ pc' = "fatal"
    /\ error' = msg

\* lines 40-45: the table request; send() or text() may fail
FetchTable ==
    /\ pc = "fetch"
    /\ \/ /\ Fail(<<"transport">>)
          /\ UNCHANGED nyse_content
       \/ /\ \E t \in TextsNow : nyse_content' = t
          /\ pc' = "parse"
          /\ UNCHANGED error
    /\ UNCHANGED <<prev_run, opts, exit_code, tsv, symbol, row_idx, join_set, tasks,
                   semaphore, fs, log>>

\* line 50
Parse ==
    /\ pc = "parse"
    /\ LET r == from_str(nyse_content) IN
       \/ /\ r.kind = "ok"
          /\ tsv' = r
          /\ pc' = "write_toml"
          /\ UNCHANGED <<error, exit_code>>
       \/ /\ r.kind = "err"
          /\ Fail(<<r.msg>>)
          /\ UNCHANGED <<tsv, exit_code>>
       \/ /\ r.kind = "panic"
          /\ pc' = "exit"
          /\ exit_code' = "101"
          /\ UNCHANGED <<tsv, error>>
    /\ UNCHANGED <<prev_run, opts, nyse_content, symbol, row_idx, join_set, tasks,
                   semaphore, fs, log>>

\* lines 54-61: the rows under the key "symbol", written to symbols.toml
WriteToml ==
    /\ pc = "write_toml"
    /\ \/ /\ fs' = Put(fs, toml_path, [symbol |-> tsv.rows])
          /\ pc' = "find_header"
          /\ UNCHANGED error
       \/ /\ Fail(<<"io">>)
          /\ UNCHANGED fs
    /\ UNCHANGED <<prev_run, opts, exit_code, nyse_content, tsv, symbol, row_idx,
                   join_set, tasks, semaphore, log>>

\* lines 63-70
FindHeader ==
    /\ pc = "find_header"
    /\ LET i == find_header_index_case_insensitive(tsv.headers, SymbolName) IN
       \/ /\ i = 0
          /\ Fail(<<"NYSE data is missing 'symbol' column">>)
          /\ UNCHANGED <<symbol, row_idx>>
       \/ /\ i # 0
          /\ symbol' = i
          /\ row_idx' = 1
          /\ pc' = "loop"
          /\ UNCHANGED error
    /\ UNCHANGED <<prev_run, opts, exit_code, nyse_content, tsv, join_set, tasks,
                   semaphore, fs, log>>

(* The for loop of lines 72-136, one row per step. *)

\* mutant of RowSymbol: the upper-casing is left out
RowSymbolNoUpper(row) == trim(row[tsv.headers[symbol]])

RowSymbol(row) == to_uppercase(trim(row[tsv.headers[symbol]]))

\* mutant of AllAlphanumeric: an empty symbol is refused
AllAlphanumericNonEmpty(sym) ==
    sym # <<>> /\ \A i \in DOMAIN sym : is_alphanumeric(sym[i])

AllAlphanumeric(sym) == \A i \in DOMAIN sym : is_alphanumeric(sym[i])

NewTask(sym) ==
    [st |-> "acquire", symbol |-> sym, logo_path |-> logo_path(sym),
     logo_url |-> logo_url(sym), body |-> "none", outcome |-> "none",
     sent |-> 0,
     \* history: whether the destination was there when the task was spawned
     existed |-> logo_path(sym) \in DOMAIN fs]

\* line 73: the row has no cell under the symbol header
LoopMissing ==
    /\ pc = "loop"
    /\ row_idx <= Len(tsv.rows)
    /\ tsv.headers[symbol] \notin DOMAIN tsv.rows[row_idx]
    /\ Fail(<<"missing symbol">>)
    /\ UNCHANGED <<prev_run, opts, exit_code, nyse_content, tsv, symbol, row_idx,
                   join_set, tasks, semaphore, fs, log>>

\* lines 76-80
LoopSkipNonAlnum ==
    /\ pc = "loop"
    /\ row_idx <= Len(tsv.rows)
    /\ tsv.headers[symbol] \in DOMAIN tsv.rows[row_idx]
    /\ LET sym == RowSymbol(tsv.rows[row_idx]) IN
       /\ ~AllAlphanumeric(sym)
       /\ log' = log \cup {[level |-> "warn", id |-> row_idx, symbol |-> sym,
                            msg |-> "skipping non-alphanumeric symbol"]}
    /\ row_idx' = row_idx + 1
    /\ UNCHANGED <<prev_run, opts, pc, exit_code, error, nyse_content, tsv, symbol,
                   join_set, tasks, semaphore, fs>>

\* mutant of SkipExisting: the file looked for is named after the
\* lower-cased symbol, as the URL is
SkipExistingLowercase(sym) ==
    ~opts.force /\ logo_path(to_lowercase(sym)) \in DOMAIN fs

\* mutant of SkipExisting: --force is ignored
SkipExistingIgnoringForce(sym) == logo_path(sym) \in DOMAIN fs

\* lines 82-87: `!opts.force && logo_path.exists()`
SkipExisting(sym) == ~opts.force /\ logo_path(sym) \in DOMAIN fs

LoopSkipExisting ==
    /\ pc = "loop"
    /\ row_idx <= Len(tsv.rows)
    /\ tsv.headers[symbol] \in DOMAIN tsv.rows[row_idx]
    /\ LET sym == RowSymbol(tsv.rows[row_idx]) IN
       /\ AllAlphanumeric(sym)
       /\ SkipExisting(sym)
       /\ log' = log \cup {[level |-> "trace", id |-> row_idx, symbol |-> sym,
                            msg |-> "skipping existing logo"]}
    /\ row_idx' = row_idx + 1
    /\ UNCHANGED <<prev_run, opts, pc, exit_code, error, nyse_content, tsv, symbol,
                   join_set, tasks, semaphore, fs>>

\* lines 89-97: join_set.spawn
LoopSpawn ==
    /\ pc = "loop"
    /\ row_idx <= Len(tsv.rows)
    /\ tsv.headers[symbol] \in DOMAIN tsv.rows[row_idx]
    /\ LET sym == RowSymbol(tsv.rows[row_idx]) IN
       /\ AllAlphanumeric(sym)
       /\ ~SkipExisting(sym)
       /\ tasks' = Put(tasks, row_idx, NewTask(sym))
    /\ join_set' = join_set \cup {row_idx}
    /\ row_idx' = row_idx + 1
    /\ UNCHANGED <<prev_run, opts, pc, exit_code, error, nyse_content, tsv, symbol,
                   semaphore, fs, log>>

\* lines 138-142: the rows are exhausted
LoopEnd ==
    /\ pc = "loop"
    /\ row_idx > Len(tsv.rows)
    /\ pc' = "join"
    /\ UNCHANGED <<prev_run, opts, exit_code, error, nyse_content, tsv, symbol, row_idx,
                   join_set, tasks, semaphore, fs, log>>

(* The task body of lines 97-135. Tasks run while pmain is in the loop or *)
(* at the join.                                                            *)

TaskAt(i, st) == i \in DOMAIN tasks /\ tasks[i].st = st

Alive == pc \in {"loop", "join"}

\* mutant of Warn: the event is emitted at trace level
WarnAtTrace(i, msg) ==
    log' = log \cup {[level |-> "trace", id |-> i, symbol |-> tasks[i].symbol,
                      msg |-> msg]}

Warn(i, msg) ==
    log' = log \cup {[level |-> "warn", id |-> i, symbol |-> tasks[i].symbol,
                      msg |-> msg]}

\* mutant of Finish: a failed task takes the unfinished others down
FinishAbortingOthers(i, outcome) ==
    /\ tasks' = [j \in DOMAIN tasks |->
                    IF j = i
                    THEN [tasks[j] EXCEPT !.st = "done", !.outcome = outcome]
                    ELSE IF outcome # "Success" /\ tasks[j].st # "done"
                    THEN [tasks[j] EXCEPT !.st = "done", !.outcome = "Aborted"]
                    ELSE tasks[j]]
    /\ semaphore' = semaphore + 1

\* mutant of Finish: a failed task keeps its permit
FinishLeakOnFailure(i, outcome) ==
    /\ tasks' = [tasks EXCEPT ![i].st = "done", ![i].outcome = outcome]
    /\ semaphore' = IF outcome = "Success" THEN semaphore + 1 ELSE semaphore

\* the task returns: _permit is dropped
Finish(i, outcome) ==
    /\ tasks' = [tasks EXCEPT ![i].st = "done", ![i].outcome = outcome]
    /\ semaphore' = semaphore + 1

\* mutant of CanAcquire: off by one
CanAcquireOffByOne == semaphore >= 0

\* line 98: acquire() completes only when a permit is available
CanAcquire == semaphore > 0

\* line 98, then the request of line 102 is issued
TaskAcquire(i) ==
    /\ Alive
    /\ TaskAt(i, "acquire")
    /\ CanAcquire
    /\ semaphore' = semaphore - 1
    /\ tasks' = [tasks EXCEPT ![i].st = "send", ![i].sent = @ + 1]
    /\ UNCHANGED <<prev_run, opts, pc, exit_code, error, nyse_content, tsv, symbol,
                   row_idx, join_set, fs, log>>

\* lines 103-109: send() returned Err
TaskSendErr(i) ==
    /\ Alive
    /\ TaskAt(i, "send")
    /\ Warn(i, "failed to fetch logo")
    /\ Finish(i, "TransportError")
    /\ UNCHANGED <<prev_run, opts, pc, exit_code, error, nyse_content, tsv, symbol,
                   row_idx, join_set, fs>>

\* mutant of TaskBadStatus: the error page is written to the destination
TaskBadStatusWriting(i) ==
    /\ Alive
    /\ TaskAt(i, "send")
    /\ fs' = Put(fs, tasks[i].logo_path, "svg")
    /\ Warn(i, "failed to fetch logo")
    /\ Finish(i, "HttpStatus")
    /\ UNCHANGED <<prev_run, opts, pc, exit_code, error, nyse_content, tsv, symbol,
                   row_idx, join_set>>

\* lines 112, 129-134: a response whose status is no success
TaskBadStatus(i) ==
    /\ Alive
    /\ TaskAt(i, "send")
    /\ Warn(i, "failed to fetch logo")
    /\ Finish(i, "HttpStatus")
    /\ UNCHANGED <<prev_run, opts, pc, exit_code, error, nyse_content, tsv, symbol,
                   row_idx, join_set, fs>>

\* line 112: a success status; the body is read next
TaskGoodStatus(i) ==
    /\ Alive
    /\ TaskAt(i, "send")
    /\ tasks' = [tasks EXCEPT ![i].st = "text"]
    /\ UNCHANGED <<prev_run, opts, pc, exit_code, error, nyse_content, tsv, symbol,
                   row_idx, join_set, semaphore, fs, log>>

\* lines 113-119: text() returned Err
TaskTextErr(i) ==
    /\ Alive
    /\ TaskAt(i, "text")
    /\ Warn(i, "failed to fetch logo")
    /\ Finish(i, "BodyError")
    /\ UNCHANGED <<prev_run, opts, pc, exit_code, error, nyse_content, tsv, symbol,
                   row_idx, join_set, fs>>

\* lines 113-121: the body was read; tokio::fs::write is started
TaskTextOk(i) ==
    /\ Alive
    /\ TaskAt(i, "text")
    /\ \E b \in Bodies : tasks' = [tasks EXCEPT ![i].st = "write", ![i].body = b]
    /\ UNCHANGED <<prev_run, opts, pc, exit_code, error, nyse_content, tsv, symbol,
                   row_idx, join_set, semaphore, fs, log>>

\* mutant of TaskWriteOk: success is reported and the file is not written
TaskWriteOkNoFile(i) ==
    /\ Alive
    /\ TaskAt(i, "write")
    /\ Finish(i, "Success")
    /\ UNCHANGED <<prev_run, opts, pc, exit_code, error, nyse_content, tsv,
                   symbol, row_idx, join_set, fs, log>>

\* lines 121, 128: the write succeeded
TaskWriteOk(i) ==
    /\ Alive
    /\ TaskAt(i, "write")
    /\ fs' = Put(fs, tasks[i].logo_path, tasks[i].body)
    /\ Finish(i, "Success")
    /\ UNCHANGED <<prev_run, opts, pc, exit_code, error, nyse_content, tsv, symbol,
                   row_idx, join_set, log>>

\* lines 121-127: the write failed, before the file was created or after
\* it was truncated
TaskWriteErr(i) ==
    /\ Alive
    /\ TaskAt(i, "write")
    /\ \/ UNCHANGED fs
       \/ fs' = Put(fs, tasks[i].logo_path, "partial")
    /\ Warn(i, "failed to write logo")
    /\ Finish(i, "IoError")
    /\ UNCHANGED <<prev_run, opts, pc, exit_code, error, nyse_content, tsv, symbol,
                   row_idx, join_set>>

\* line 144: join_next takes one finished task out of the set
JoinNext(i) ==
    /\ pc = "join"
    /\ i \in join_set
    /\ TaskAt(i, "done")
    /\ join_set' = join_set \ {i}
    /\ UNCHANGED <<prev_run, opts, pc, exit_code, error, nyse_content, tsv, symbol,
                   row_idx, tasks, semaphore, fs, log>>

\* lines 144-148, 187: join_next returned None; pmain returns Ok
JoinDone ==
    /\ pc = "join"
    /\ join_set = {}
    /\ pc' = "exit"
    /\ exit_code' = "0"
    /\ log' = log \cup {[level |-> "info", id |-> 0, symbol |-> <<>>,
                         msg |-> "done"]}
    /\ UNCHANGED <<prev_run, opts, error, nyse_content, tsv, symbol, row_idx, join_set,
                   tasks, semaphore, fs>>

\* lines 187-190: pmain returned Err; the process exits, whatever the
\* tasks are doing
MainExit ==
    /\ pc = "fatal"
    /\ pc' = "exit"
    /\ exit_code' = "1"
    /\ log' = log \cup {[level |-> "error", id |-> 0, symbol |-> <<>>,
                         msg |-> "fatal error"]}
    /\ UNCHANGED <<prev_run, opts, error, nyse_content, tsv, symbol, row_idx, join_set,
                   tasks, semaphore, fs>>

\* a write already handed to the blocking pool lands after pmain returned
\* Err and before the process exits; the cancelled task's future is
\* dropped, and _permit with it
AbortedWrite(i) ==
    /\ pc = "fatal"
    /\ TaskAt(i, "write")
    /\ \/ fs' = Put(fs, tasks[i].logo_path, tasks[i].body)
       \/ fs' = Put(fs, tasks[i].logo_path, "partial")
    /\ tasks' = [tasks EXCEPT ![i].st = "aborted"]
    /\ semaphore' = semaphore + 1
    /\ UNCHANGED <<prev_run, opts, pc, exit_code, error, nyse_content, tsv, symbol,
                   row_idx, join_set, log>>

Next ==
    \/ FetchTable
    \/ Parse
    \/ WriteToml
    \/ FindHeader
    \/ LoopMissing
    \/ LoopSkipNonAlnum
    \/ LoopSkipExisting
    \/ LoopSpawn
    \/ LoopEnd
    \/ \E i \in DOMAIN tasks : TaskAcquire(i)
    \/ \E i \in DOMAIN tasks : TaskSendErr(i)
    \/ \E i \in DOMAIN tasks : TaskBadStatus(i)
    \/ \E i \in DOMAIN tasks : TaskGoodStatus(i)
    \/ \E i \in DOMAIN tasks : TaskTextErr(i)
    \/ \E i \in DOMAIN tasks : TaskTextOk(i)
    \/ \E i \in DOMAIN tasks : TaskWriteOk(i)
    \/ \E i \in DOMAIN tasks : TaskWriteErr(i)
    \/ \E i \in DOMAIN tasks : AbortedWrite(i)
    \/ \E i \in join_set : JoinNext(i)
    \/ JoinDone
    \/ MainExit

Spec == Init /\ [][Next]_vars

(* Two runs in a row with force=false, over the same table and the same
   output directory: the second process starts from the files the first
   one left. *)

InitTwoRuns == Init /\ ~opts.force

\* the process is started again (main, lines 185-186) once the run before
\* has exited with every task it spawned ended in success
Rerun ==
    /\ pc = "exit"
    /\ prev_run = <<>>
    /\ ~opts.force
    /\ nyse_content \in Texts
    /\ \A i \in DOMAIN tasks : tasks[i].outcome = "Success"
    /\ prev_run' = <<[nyse_content |-> nyse_content, fs |-> fs,
                      tasks |-> tasks, symbol |-> symbol]>>
    /\ pc' = "fetch"
    /\ exit_code' = "none"
    /\ error' = <<>>
    /\ nyse_content' = <<>>
    /\ tsv' = NoTsv
    /\ symbol' = 0
    /\ row_idx' = 0
    /\ join_set' = {}
    /\ tasks' = <<>>
    /\ semaphore' = opts.jobs
    /\ log' = {}
    /\ UNCHANGED <<opts, fs>>

NextTwoRuns ==
    \/ Next
    \/ Rerun

SpecTwoRuns == InitTwoRuns /\ [][NextTwoRuns]_vars

(* The parser alone, on every text of at most MaxLen characters. *)

ParseAlphabet == {TAB, LF, "a", "b", " "}

ParseTexts == UNION {[1..k -> ParseAlphabet] : k \in 0..MaxLen}

InitParse ==
    /\ prev_run = <<>>
    /\ opts = [force |-> FALSE, jobs |-> 0]
    /\ pc = "input"
    /\ exit_code = "none"
    /\ error = <<>>
    /\ nyse_content \in ParseTexts
    /\ tsv = NoTsv
    /\ symbol = 0
    /\ row_idx = 0
    /\ join_set = {}
    /\ tasks = <<>>
    /\ semaphore = 0
    /\ fs = <<>>
    /\ log = {}

\* Tsv::from_str applied to the text
ParseText ==
    /\ pc = "input"
    /\ tsv' = from_str(nyse_content)
    /\ pc' = "parsed"
    /\ UNCHANGED <<prev_run, opts, exit_code, error, nyse_content, symbol, row_idx,
                   join_set, tasks, semaphore, fs, log>>

NextParse == ParseText

SpecParse == InitParse /\ [][NextParse]_vars

(* ============================== claims ================================ *)

\* the tasks inside the fetch + write section: a permit acquired, the body
\* not yet left
InFlight == {i \in DOMAIN tasks : tasks[i].st \in {"send", "text", "write"}}

FailedOutcomes == {"TransportError", "HttpStatus", "BodyError", "IoError"}

\* C1: in every reachable state the number of tasks that hold a permit and
\* have not terminated is at most the job count
TheoremC1 == Cardinality(InFlight) <= opts.jobs

\* C1 witness: the pool is exhausted (J >= 1 tasks in flight) while another
\* task waits for a permit
WitnessC1 ==
    /\ opts.jobs >= 1
    /\ Cardinality(InFlight) = opts.jobs
    /\ \E i \in DOMAIN tasks : tasks[i].st = "acquire"

\* C2: the step in which one task fails changes no other task, does not move
\* pmain and sets neither an error nor an exit code
TheoremC2 ==
    [][\A i \in DOMAIN tasks :
          (tasks[i].outcome = "none" /\ tasks'[i].outcome \in FailedOutcomes)
          => /\ \A j \in DOMAIN tasks \ {i} : tasks'[j] = tasks[j]
             /\ pc' = pc
             /\ error' = error
             /\ exit_code' = exit_code
             /\ join_set' = join_set]_vars

\* C2 witness: the run ended successfully with one task failed and another
\* task, of another symbol, successful
WitnessC2 ==
    /\ exit_code = "0"
    /\ \E i, j \in DOMAIN tasks :
          /\ tasks[i].outcome \in FailedOutcomes
          /\ tasks[j].outcome = "Success"
          /\ tasks[i].symbol # tasks[j].symbol

\* C3 (as claimed): pmain has returned only if every task it spawned has
\* finished its body
CounterexampleC3 ==
    pc \in {"fatal", "exit"}
    => \A i \in DOMAIN tasks :
          tasks[i].st = "done" /\ tasks[i].outcome \in FailedOutcomes \cup {"Success"}

(* The input text read independently of the parser: by positions. *)

FirstPos(s, c) == CHOOSE i \in DOMAIN s : s[i] = c /\ \A j \in 1..(i - 1) : s[j] # c

RECURSIVE Cut(_, _)
Cut(s, c) ==
    IF \A i \in DOMAIN s : s[i] # c THEN <<s>>
    ELSE <<SubSeq(s, 1, FirstPos(s, c) - 1)>>
         \o Cut(SubSeq(s, FirstPos(s, c) + 1, Len(s)), c)

\* the lines of a text: each ended by LF, the last one possibly not
TextLines(t) ==
    IF t = <<>> THEN <<>>
    ELSE Cut(IF t[Len(t)] = LF THEN SubSeq(t, 1, Len(t) - 1) ELSE t, LF)

\* the raw fields of every data line of the fetched text
RawRows ==
    LET ls == TextLines(nyse_content)
    IN [i \in 1..(Len(ls) - 1) |-> Cut(ls[i + 1], TAB)]

InFanOut == tsv.kind = "ok" /\ symbol # 0

CellPresent(raw, i) == symbol <= Len(raw[i])

\* what the symbol of row i has to be: the raw cell trimmed and upper-cased
ExpectedSymbol(raw, i) == to_uppercase(trim(raw[i][symbol]))

IsValid(sym) == \A k \in DOMAIN sym : is_alphanumeric(sym[k])

\* the rows the loop has gone past
Processed == IF InFanOut THEN 1..(row_idx - 1) ELSE {}

SkippedExisting ==
    {e.id : e \in {x \in log : x.msg = "skipping existing logo"}}

SkippedNonAlnum ==
    {e.id : e \in {x \in log : x.msg = "skipping non-alphanumeric symbol"}}

\* C4: with force false, a row whose destination file exists when the loop
\* processes it is skipped: it never has a task (so no permit, no request
\* and no write is made for it), and every task was spawned while its file
\* was not there
TheoremC4 ==
    /\ \A i \in DOMAIN tasks :
          /\ i \in Processed
          /\ tasks[i].existed => opts.force
    /\ SkippedExisting # {}
       => LET raw == RawRows IN
          \A i \in SkippedExisting :
             /\ ~opts.force
             /\ i \notin DOMAIN tasks
             /\ logo_path(ExpectedSymbol(raw, i)) \in DOMAIN fs

\* C4 witness: the run ended, a row was skipped for its existing file while
\* another row's logo was fetched
WitnessC4 ==
    /\ exit_code = "0"
    /\ SkippedExisting # {}
    /\ \E j \in DOMAIN tasks : tasks[j].outcome = "Success"

TheoremC6 ==
    /\ DOMAIN tasks \subseteq Processed
    /\ Processed # {}
       => LET raw == RawRows IN
          /\ \A i \in DOMAIN tasks :
                /\ CellPresent(raw, i)
                /\ tasks[i].symbol = ExpectedSymbol(raw, i)
                /\ IsValid(tasks[i].symbol)
          /\ \A i \in Processed :
                /\ CellPresent(raw, i)
                /\ ~IsValid(ExpectedSymbol(raw, i)) => i \notin DOMAIN tasks
                /\ i \in DOMAIN tasks \cup SkippedExisting \cup SkippedNonAlnum

\* C6 witness: a request was issued for a symbol that differs from its raw
\* cell, and an earlier or later row was dropped as non-alphanumeric
WitnessC6 ==
    /\ \E i \in DOMAIN tasks :
          /\ tasks[i].symbol # RawRows[i][symbol]
          /\ tasks[i].sent = 1
    /\ \E j \in Processed :
          ~IsValid(ExpectedSymbol(RawRows, j)) /\ j \in SkippedNonAlnum

\* C7 (as claimed): the run never stops at a row whose symbol cell is
\* absent
CounterexampleC7 ==
    (InFanOut /\ pc \in {"fatal", "exit"})
    => \A i \in 1..Len(tsv.rows) :
          ~CellPresent(RawRows, i) => row_idx # i

\* C8 (as claimed): a non-zero exit is decided before the fan-out begins
CounterexampleC8 == (pc = "fatal" \/ exit_code \in {"1", "101"}) => symbol = 0

NoSymbolHeader(headers) ==
    \A i \in DOMAIN headers : to_lowercase(headers[i]) # SymbolName

UpstreamErrors ==
    {<<"missing headers">>, <<"io">>, <<"NYSE data is missing 'symbol' column">>}

EndedInError == pc \in {"fatal", "exit"} /\ exit_code # "0"

NothingSpawned ==
    /\ DOMAIN tasks = {}
    /\ join_set = {}
    /\ \A p \in DOMAIN fs : p = toml_path \/ fs[p] = "old"

\* the text has no header line, or a data line of more fields than the
\* header line has
Unparsable(t) ==
    LET ls == TextLines(t) IN
    \/ ls = <<>>
    \/ \E k \in 2..Len(ls) : Len(Cut(ls[k], TAB)) > Len(Cut(ls[1], TAB))

\* C9: a text that does not parse, a failed table write and a header list
\* without a case-insensitive "symbol" each end the run in an error, with
\* no task spawned and no request issued
TheoremC9 ==
    /\ (error \in UpstreamErrors \/ exit_code = "101")
       => EndedInError /\ NothingSpawned
    /\ (pc = "write_toml" \/ symbol # 0) => ~Unparsable(nyse_content)
    /\ (tsv.kind = "ok" /\ pc \notin {"write_toml", "find_header"}
          /\ ~(EndedInError /\ NothingSpawned))
       => ~NoSymbolHeader(tsv.headers)

\* C9 witness: the table was parsed and written, it has rows, and the run
\* ended for the missing symbol column
WitnessC9 ==
    /\ exit_code = "1"
    /\ error = <<"NYSE data is missing 'symbol' column">>
    /\ toml_path \in DOMAIN fs
    /\ Len(tsv.rows) >= 1

HeaderFields(t) == Cut(TextLines(t)[1], TAB)

\* a header line of names that are distinct once trimmed, and data lines of
\* exactly as many fields
WellFormed(t) ==
    /\ TextLines(t) # <<>>
    /\ \A i, j \in DOMAIN HeaderFields(t) :
          i # j => trim(HeaderFields(t)[i]) # trim(HeaderFields(t)[j])
    /\ \A k \in 2..Len(TextLines(t)) :
          Len(Cut(TextLines(t)[k], TAB)) = Len(HeaderFields(t))

\* C10: parsing a well-formed text gives as many headers as the header line
\* has names, one row per data line, in the order of the lines, and every
\* row's keys are the headers
TheoremC10 ==
    (pc = "parsed" /\ WellFormed(nyse_content))
    => /\ tsv.kind = "ok"
       /\ Len(tsv.headers) = Len(HeaderFields(nyse_content))
       /\ Len(tsv.rows) = Len(TextLines(nyse_content)) - 1
       /\ \A i \in DOMAIN tsv.rows :
             /\ DOMAIN tsv.rows[i] = Range(tsv.headers)
             /\ \A j \in DOMAIN HeaderFields(nyse_content) :
                   tsv.rows[i][trim(HeaderFields(nyse_content)[j])]
                      = trim(Cut(TextLines(nyse_content)[i + 1], TAB)[j])

\* C10 witness: a well-formed text of two columns and a data line, one of
\* its cells empty, was parsed
WitnessC10 ==
    /\ pc = "parsed"
    /\ WellFormed(nyse_content)
    /\ Len(tsv.headers) >= 2
    /\ Len(tsv.rows) >= 1
    /\ \E k \in DOMAIN tsv.headers : tsv.rows[1][tsv.headers[k]] = <<>>

\* a data line of fewer fields than the header line has
ShortRow(t) ==
    LET ls == TextLines(t) IN
    /\ ls # <<>>
    /\ \E k \in 2..Len(ls) : Len(Cut(ls[k], TAB)) < Len(Cut(ls[1], TAB))

\* C11 (as claimed): a text with a data line of fewer fields than headers
\* is refused with an error, and no table with a partial row comes out
CounterexampleC11 ==
    (pc = "parsed" /\ ShortRow(nyse_content))
    => tsv.kind = "err"

\* the symbol the loop computes for row i of the parsed table
CellSymbol(i) == to_uppercase(trim(tsv.rows[i][tsv.headers[symbol]]))

Warned(i, sym) ==
    \E e \in log : e.level = "warn" /\ e.id = i /\ e.symbol = sym

\* C12 (as claimed): every failed task and every skipped row, skipped for
\* a non-alphanumeric symbol or for an existing file, has a warning-level
\* event naming its symbol
CounterexampleC12 ==
    /\ \A i \in DOMAIN tasks :
          tasks[i].outcome \in FailedOutcomes => Warned(i, tasks[i].symbol)
    /\ \A i \in Processed :
          i \notin DOMAIN tasks => Warned(i, CellSymbol(i))

\* C12 (amended): every failed task and every row skipped for a
\* non-alphanumeric symbol has a warning-level event naming its symbol from
\* the step that decided it on; a row skipped for its existing file has a
\* trace-level event only
TheoremC12 ==
    /\ \A i \in DOMAIN tasks :
          tasks[i].outcome \in FailedOutcomes => Warned(i, tasks[i].symbol)
    /\ \A i \in Processed :
          i \notin DOMAIN tasks
          => IF IsValid(CellSymbol(i))
             THEN /\ ~Warned(i, CellSymbol(i))
                  /\ \E e \in log :
                        /\ e.level = "trace"
                        /\ e.id = i
                        /\ e.symbol = CellSymbol(i)
                        /\ e.msg = "skipping existing logo"
             ELSE Warned(i, CellSymbol(i))

\* C12 witness: a task has failed and a row was skipped as non-alphanumeric,
\* both warned about
WitnessC12 ==
    /\ \E i \in DOMAIN tasks :
          tasks[i].outcome \in FailedOutcomes /\ Warned(i, tasks[i].symbol)
    /\ \E j \in Processed :
          ~IsValid(CellSymbol(j)) /\ Warned(j, CellSymbol(j))

\* C13 (as claimed): with J >= 1, once the run of a table that spawned
\* tasks is over, every spawned task has reached a terminal outcome after at
\* most one request and the run has reported completion
CounterexampleC13 ==
    (opts.jobs >= 1 /\ pc = "exit" /\ DOMAIN tasks # {})
    => /\ \A i \in DOMAIN tasks :
             /\ tasks[i].st = "done"
             /\ tasks[i].outcome \in FailedOutcomes \cup {"Success"}
             /\ tasks[i].sent <= 1
       /\ exit_code = "0"
       /\ \E e \in log : e.level = "info" /\ e.msg = "done"

\* the failed outcomes reached before the write is attempted
NoWriteOutcomes == {"TransportError", "HttpStatus", "BodyError"}

\* C14: a task is at its write only after one request whose response had a
\* success status and a body that was read; a step that ends a task in a
\* transport error, a non-success status or a body-read error changes no
\* file, and a logo file changes only in a step of a task that is at its
\* write to that path
TheoremC14 ==
    /\ [](\A i \in DOMAIN tasks :
             tasks[i].st = "write" => tasks[i].body \in Bodies /\ tasks[i].sent = 1)
    /\ [][/\ \A i \in DOMAIN tasks \cap DOMAIN tasks' :
                (tasks[i].outcome = "none" /\ tasks'[i].outcome \in NoWriteOutcomes)
                => fs' = fs
          /\ \A p \in DOMAIN fs' :
                (p # toml_path /\ (p \notin DOMAIN fs \/ fs'[p] # fs[p]))
                => \E i \in DOMAIN tasks :
                      /\ tasks[i].st = "write"
                      /\ tasks[i].logo_path = p
                      /\ fs'[p] \in {tasks[i].body, "partial"}]_vars

\* C14 witness: under force a task refetching an existing file ended with a
\* non-success status and the old file is still there
WitnessC14 ==
    /\ opts.force
    /\ \E i \in DOMAIN tasks :
          /\ tasks[i].existed
          /\ tasks[i].outcome = "HttpStatus"
          /\ tasks[i].logo_path \in DOMAIN fs
          /\ fs[tasks[i].logo_path] = "old"

\* C15: the free permits and the permits of the tasks between acquire and
\* their end add up to J in every state; a task issues its one request
\* only holding a permit, a task that ended (in success or any failure) has
\* issued one request and holds none, and when the run completes all J
\* permits are free
TheoremC15 ==
    /\ semaphore >= 0
    /\ semaphore + Cardinality(InFlight) = opts.jobs
    /\ \A i \in DOMAIN tasks :
          /\ tasks[i].st = "acquire" => tasks[i].sent = 0
          /\ tasks[i].st # "acquire" => tasks[i].sent = 1
    /\ (\A i \in DOMAIN tasks : tasks[i].st \in {"done", "aborted"})
       => semaphore = opts.jobs
    /\ exit_code = "0" => semaphore = opts.jobs

\* C15 witness: the run completed after tasks ended in a failure and in
\* success, and every permit is back
WitnessC15 ==
    /\ exit_code = "0"
    /\ opts.jobs >= 1
    /\ semaphore = opts.jobs
    /\ \E i \in DOMAIN tasks : tasks[i].outcome \in FailedOutcomes
    /\ \E i \in DOMAIN tasks : tasks[i].outcome = "Success"

\* C16 (as claimed): no two tasks spawned in one run have the same
\* destination path, and no two tasks are ever writing the same file
CounterexampleC16 ==
    \A i, j \in DOMAIN tasks :
        i # j => tasks[i].logo_path # tasks[j].logo_path

\* the logo files of a file system
Logos(f) == [p \in DOMAIN f \ {toml_path} |-> f[p]]

\* C17 (as claimed): in a run with force=false that follows a run with
\* force=false over the same table in which every spawned task ended in
\* success, no task is spawned, no logo request is issued and the logo
\* files stay what the first run left
CounterexampleC17 ==
    prev_run # <<>>
    => /\ tasks = <<>>
       /\ Logos(fs) = Logos(prev_run[1].fs)

\* C17 (amended): the same, when the first run got as far as its loop over
\* the rows (the table was fetched, parsed and written, and its symbol
\* column found)
TheoremC17 ==
    (prev_run # <<>> /\ prev_run[1].symbol # 0)
    => /\ tasks = <<>>
       /\ join_set = {}
       /\ Logos(fs) = Logos(prev_run[1].fs)

\* C17 witness: the first run fetched logos, and the second one has gone
\* through the table, skipped a row for its file and completed
WitnessC17 ==
    /\ prev_run # <<>>
    /\ prev_run[1].symbol # 0
    /\ prev_run[1].tasks # <<>>
    /\ exit_code = "0"
    /\ \E e \in log : e.msg = "skipping existing logo" /\ e.id = 1

\* C18: jobs = 0 is accepted; every task spawned then stays at its
\* acquire, no request is issued, no permit is ever free, and the run
\* neither completes nor leaves the join loop once it is there
TheoremC18 ==
    opts.jobs = 0
    => /\ semaphore = 0
       /\ \A i \in DOMAIN tasks :
             /\ tasks[i].st = "acquire"
             /\ tasks[i].sent = 0
             /\ tasks[i].outcome = "none"
             /\ i \in join_set
       /\ tasks # <<>>
          => /\ exit_code # "0"
             /\ \A e \in log : e.msg # "done"
             /\ Logos(fs) = [p \in OldFiles |-> "old"]

\* C18 witness: with jobs = 0 the loop is over, a task was spawned and the
\* run sits in the join loop
WitnessC18 ==
    /\ opts.jobs = 0
    /\ pc = "join"
    /\ tasks # <<>>
    /\ \A i \in DOMAIN tasks : tasks[i].st = "acquire" /\ i \in join_set

\* C19: a processed row whose symbol cell is empty after trimming is not
\* skipped as non-alphanumeric: a task with the empty symbol, destination
\* ".svg" and URL "https://logos.stockanalysis.com/.svg" was spawned for it,
\* unless force is off and ".svg" was there when the row was examined
TheoremC19 ==
    \A i \in Processed :
        CellSymbol(i) = <<>>
        => /\ i \notin SkippedNonAlnum
           /\ \/ /\ i \in DOMAIN tasks
                 /\ tasks[i].symbol = <<>>
                 /\ tasks[i].logo_path = <<".svg">>
                 /\ tasks[i].logo_url = <<"https://logos.stockanalysis.com/", ".svg">>
              \/ /\ i \notin DOMAIN tasks
                 /\ ~opts.force
                 /\ <<".svg">> \in DOMAIN fs

\* C19 witness: the task of an empty symbol has sent its request
WitnessC19 ==
    \E i \in Processed :
        /\ CellSymbol(i) = <<>>
        /\ i \in DOMAIN tasks
        /\ tasks[i].symbol = <<>>
        /\ tasks[i].sent = 1

\* a data line of more fields than the header line has
LongRow(t) ==
    LET ls == TextLines(t) IN
    /\ ls # <<>>
    /\ \E k \in 2..Len(ls) : Len(Cut(ls[k], TAB)) > Len(Cut(ls[1], TAB))

\* C20: a table with a data line of more fields than headers makes the
\* parse panic: the process ends with the panic's exit code and no returned
\* error, no table, no symbols.toml and no task; a parse that went on to the
\* write, or returned an error, had no such line
TheoremC20 ==
    /\ exit_code = "101"
       => /\ LongRow(nyse_content)
          /\ pc = "exit"
          /\ error = <<>>
          /\ tsv = NoTsv
          /\ toml_path \notin DOMAIN fs
          /\ Logos(fs) = [p \in OldFiles |-> "old"]
          /\ tasks = <<>>
          /\ join_set = {}
          /\ log = {}
    /\ (pc = "write_toml" \/ (pc = "fatal" /\ tsv = NoTsv))
       => ~LongRow(nyse_content)

\* C20 witness: the parse of a table with too long a data line has
\* panicked
WitnessC20 ==
    /\ LongRow(nyse_content)
    /\ pc = "exit"
    /\ exit_code = "101"
    /\ tsv = NoTsv

====
